---- MODULE Spec2Model ----
(***************************************************************************)
(* Model of hlfshell/gsvt: the schema model, catalog reader and migration  *)
(* planner of schema.go, the record store of db.go and the vector codec of *)
(* vector.go, run against a model of the SQLite catalog they talk to.      *)
(*                                                                         *)
(* Strings that the code builds by concatenation with "_" (index names on  *)
(* the wire, the temporary table name) are sequences of tokens: the table  *)
(* "T" is <<"T">>, its index "u" is <<"T","u">> on the wire and its        *)
(* temporary table is <<"T","tmp">>.                                       *)
(***************************************************************************)
EXTENDS Integers, Sequences, FiniteSets, TLC

VARIABLES
    tables,     \* sqlite: table name -> [cols, rows], for the tables that exist
    indexes,    \* sqlite: sequence of [name, tbl, cols, origin] in creation order
    schema,     \* DB.schema of the current store handle (Nil before NewDB)
    op,         \* the last operation and what it was given / what it returned
    nrows,      \* number of rows inserted so far (caps the run)
    sa,         \* Schema.Equal / GenerateDifference: first operand
    sb,         \* Schema.Equal / GenerateDifference: second operand
    sres,       \* result of the last pure schema operation
    emb,        \* Vector.Vector of the codec run
    payload,    \* byte payload of the codec run
    cres,       \* result of the last codec operation
    simIn,          \* SimilarityToVectorSet: [v, vectors, options] of the call
    similarities,   \* SimilarityToVectorSet: the result slice the workers fill
    indexChannel,   \* [next, closed]: the index the caller offers next
    goroutines,     \* worker -> [pc, index]
    simReturn,      \* what SimilarityToVectorSet returned, once it has
    config          \* DB.config of the store handle

vars == <<tables, indexes, schema, op, nrows, sa, sb, sres, emb, payload, cres,
         simIn, similarities, indexChannel, goroutines, simReturn, config>>

dbVars == <<tables, indexes, schema, op, nrows>>
pureVars == <<sa, sb, sres>>
codecVars == <<emb, payload, cres>>
simVars == <<simIn, similarities, indexChannel, goroutines, simReturn>>

\* ------------------------------------------------------------------------
\* Bounds
\* ------------------------------------------------------------------------
MaxCols == 2
MaxIdx == 1
MaxRows == 2
MaxColSeq == 2
MaxIdxSeq == 1
MaxEmbLen == 2

Nil == [nil |-> TRUE]
NullString == [valid |-> FALSE]
NULL == [null |-> TRUE]

\* ------------------------------------------------------------------------
\* Helpers on sequences
\* ------------------------------------------------------------------------
Range(s) == {s[i] : i \in 1..Len(s)}

HasPrefix(s, p) == Len(s) >= Len(p) /\ SubSeq(s, 1, Len(p)) = p

TrimPrefix(s, p) == IF HasPrefix(s, p) THEN SubSeq(s, Len(p) + 1, Len(s)) ELSE s

Reverse(s) == [i \in 1..Len(s) |-> s[Len(s) + 1 - i]]

RECURSIVE Flatten(_)
Flatten(ss) == IF Len(ss) = 0 THEN <<>> ELSE Head(ss) \o Flatten(Tail(ss))

\* ------------------------------------------------------------------------
\* Column  (schema.go)
\* ------------------------------------------------------------------------
Col(name, type, required, default, pk) ==
    [Name |-> name, Type |-> type, Required |-> required,
     Default |-> default, PrimaryKey |-> pk]

ColumnEqual(c, other) ==
    /\ c.Name = other.Name
    /\ c.Type = other.Type
    /\ c.Required = other.Required
    /\ c.Default = other.Default
    /\ c.PrimaryKey = other.PrimaryKey

ColumnIsIn(c, columns) == \E i \in 1..Len(columns) : ColumnEqual(columns[i], c)

\* The column clause of CREATE TABLE: NOT NULL if Required, PRIMARY KEY if
\* PrimaryKey, DEFAULT <literal> only when Default is not the empty string.
ColumnSQL(c) ==
    [name |-> c.Name, type |-> c.Type, notnull |-> c.Required,
     pk |-> c.PrimaryKey,
     dflt |-> IF c.Default # "" THEN [valid |-> TRUE, lit |-> c.Default]
              ELSE NullString]

\* ------------------------------------------------------------------------
\* Index  (schema.go)
\* ------------------------------------------------------------------------
Idx(name, columns) == [Name |-> name, Columns |-> columns]

IndexEqual(i, other) ==
    IF Len(i.Columns) # Len(other.Columns) THEN FALSE
    ELSE IF \E k \in 1..Len(other.Columns) : ~ColumnIsIn(other.Columns[k], i.Columns)
         THEN FALSE
    ELSE i.Name = other.Name

IndexIsIn(i, idxs) == \E k \in 1..Len(idxs) : IndexEqual(idxs[k], i)

CreateIndexSQL(i, tablename) ==
    [op |-> "CREATE_INDEX", name |-> tablename \o i.Name, tbl |-> tablename,
     cols |-> [k \in 1..Len(i.Columns) |-> i.Columns[k].Name]]

\* ------------------------------------------------------------------------
\* Schema  (schema.go)
\* ------------------------------------------------------------------------
Sch(name, columns, idxs) == [Name |-> name, Columns |-> columns, Indexes |-> idxs]

SchemaEqual(s, other) ==
    IF Len(s.Columns) # Len(other.Columns) THEN FALSE
    ELSE IF Len(s.Indexes) # Len(other.Indexes) THEN FALSE
    ELSE IF \E k \in 1..Len(other.Columns) : ~ColumnIsIn(other.Columns[k], s.Columns)
         THEN FALSE
    ELSE IF \E k \in 1..Len(other.Indexes) : ~IndexIsIn(other.Indexes[k], s.Indexes)
         THEN FALSE
    ELSE s.Name = other.Name

CreateTableSQL(s) ==
    [op |-> "CREATE_TABLE", name |-> s.Name,
     cols |-> [k \in 1..Len(s.Columns) |-> ColumnSQL(s.Columns[k])]]

\* The four loops of GenerateDifference: append, in order, the elements of
\* one list that IsIn does not find in the other.
ColumnsNotIn(columns, others) ==
    LET Missing(c) == ~ColumnIsIn(c, others) IN SelectSeq(columns, Missing)

IndexesNotIn(idxs, others) ==
    LET Missing(i) == ~IndexIsIn(i, others) IN SelectSeq(idxs, Missing)

GenerateDifference(s, other) ==
    [addColumns |-> ColumnsNotIn(other.Columns, s.Columns),
     removeColumns |-> ColumnsNotIn(s.Columns, other.Columns),
     addIndexes |-> IndexesNotIn(other.Indexes, s.Indexes),
     removeIndexes |-> IndexesNotIn(s.Indexes, other.Indexes)]

SQLMigrate(s, otherTableName, columns) ==
    [op |-> "INSERT_SELECT", into |-> s.Name,
     cols |-> [k \in 1..Len(columns) |-> columns[k].Name],
     from |-> otherTableName]

DropIndexSQL(tablename, i) ==
    [op |-> "DROP_INDEX", name |-> tablename \o i.Name]

TmpTableName(s) == s.Name \o <<"tmp">>

RenameSQL(s) ==
    [op |-> "RENAME", from |-> s.Name, to |-> TmpTableName(s)]

KeptColumnsByName(s, other) ==
    LET Kept(c) == \E k \in 1..Len(other.Columns) : other.Columns[k].Name = c.Name
    IN SelectSeq(s.Columns, Kept)

KeptColumns(s, other) ==
    LET Kept(c) == ColumnIsIn(c, other.Columns) IN SelectSeq(s.Columns, Kept)

RebuildPlan(s, other) ==
    [k \in 1..Len(s.Indexes) |-> DropIndexSQL(s.Name, s.Indexes[k])]
    \o <<RenameSQL(s)>>
    \o <<CreateTableSQL(other)>>
    \o [k \in 1..Len(other.Indexes) |-> CreateIndexSQL(other.Indexes[k], other.Name)]
    \o <<SQLMigrate(s, TmpTableName(s), KeptColumns(s, other))>>

IndexOnlyPlan(s, other) ==
    LET d == GenerateDifference(s, other) IN
    [k \in 1..Len(d.removeIndexes) |-> DropIndexSQL(s.Name, d.removeIndexes[k])]
    \o [k \in 1..Len(d.addIndexes) |-> CreateIndexSQL(d.addIndexes[k], other.Name)]

TableChanges(s, other) ==
    LET d == GenerateDifference(s, other) IN
    Len(d.addColumns) # 0 \/ Len(d.removeColumns) # 0 \/ s.Name # other.Name

AlterSchemaSQLAlwaysRebuild(s, other) == RebuildPlan(s, other)

AlterSchemaSQL(s, other) ==
    IF TableChanges(s, other) THEN RebuildPlan(s, other)
    ELSE IndexOnlyPlan(s, other)

\* ------------------------------------------------------------------------
\* SQLite: the catalog and the statements the code sends to it
\* ------------------------------------------------------------------------
Backend(t, i) == [tables |-> t, indexes |-> i]

Ok(be) == [ok |-> TRUE, be |-> be]
Fail(be) == [ok |-> FALSE, be |-> be]

IndexNames(be) == {be.indexes[k].name : k \in 1..Len(be.indexes)}

ColNames(t) == {t.cols[k].name : k \in 1..Len(t.cols)}

AutoIndexName(tbl) == <<"sqlite_autoindex">> \o tbl \o <<"1">>

PkCount(cols) == Cardinality({k \in 1..Len(cols) : cols[k].pk})

\* CREATE TABLE IF NOT EXISTS name(cols)
ExecCreateTable(st, be) ==
    IF Len(st.cols) = 0 THEN Fail(be)
    ELSE IF st.name \in DOMAIN be.tables THEN Ok(be)
    ELSE IF st.name \in IndexNames(be) THEN Fail(be)
    ELSE IF \E j, k \in 1..Len(st.cols) : j # k /\ st.cols[j].name = st.cols[k].name
         THEN Fail(be)
    ELSE IF PkCount(st.cols) > 1 THEN Fail(be)
    ELSE
      LET cols == [k \in 1..Len(st.cols) |->
                     [name |-> st.cols[k].name, type |-> st.cols[k].type,
                      notnull |-> IF st.cols[k].notnull THEN 1 ELSE 0,
                      dflt |-> st.cols[k].dflt,
                      pk |-> IF st.cols[k].pk THEN 1 ELSE 0]]
          pks == {k \in 1..Len(cols) : cols[k].pk = 1 /\ cols[k].type # "INTEGER"}
          auto == IF pks = {} THEN <<>>
                  ELSE <<[name |-> AutoIndexName(st.name), tbl |-> st.name,
                          cols |-> <<cols[CHOOSE k \in pks : TRUE].name>>,
                          origin |-> "pk"]>>
      IN Ok(Backend([n \in DOMAIN be.tables \cup {st.name} |->
                       IF n = st.name THEN [cols |-> cols, rows |-> <<>>]
                       ELSE be.tables[n]],
                    be.indexes \o auto))

\* CREATE INDEX IF NOT EXISTS name ON tbl(cols)
ExecCreateIndex(st, be) ==
    IF Len(st.cols) = 0 THEN Fail(be)
    ELSE IF st.tbl \notin DOMAIN be.tables THEN Fail(be)
    ELSE IF st.name \in DOMAIN be.tables THEN Fail(be)
    ELSE IF st.name \in IndexNames(be) THEN Ok(be)
    ELSE IF \E k \in 1..Len(st.cols) : st.cols[k] \notin ColNames(be.tables[st.tbl])
         THEN Fail(be)
    ELSE Ok(Backend(be.tables,
                    Append(be.indexes, [name |-> st.name, tbl |-> st.tbl,
                                        cols |-> st.cols, origin |-> "c"])))

\* DROP INDEX IF EXISTS name
ExecDropIndex(st, be) ==
    IF \E k \in 1..Len(be.indexes) :
          be.indexes[k].name = st.name /\ be.indexes[k].origin # "c"
    THEN Fail(be)
    ELSE LET Other(i) == i.name # st.name
         IN Ok(Backend(be.tables, SelectSeq(be.indexes, Other)))

\* ALTER TABLE from RENAME TO to
ExecRename(st, be) ==
    IF st.from \notin DOMAIN be.tables THEN Fail(be)
    ELSE IF st.to \in DOMAIN be.tables \/ st.to \in IndexNames(be) THEN Fail(be)
    ELSE Ok(Backend([n \in (DOMAIN be.tables \ {st.from}) \cup {st.to} |->
                       IF n = st.to THEN be.tables[st.from] ELSE be.tables[n]],
                    [k \in 1..Len(be.indexes) |->
                       IF be.indexes[k].tbl # st.from THEN be.indexes[k]
                       ELSE [be.indexes[k] EXCEPT
                               !.tbl = st.to,
                               !.name = IF be.indexes[k].origin = "pk"
                                        THEN AutoIndexName(st.to) ELSE @]]))

DefaultValue(col) == IF col.dflt.valid THEN [lit |-> col.dflt.lit] ELSE NULL

\* The constraints sqlite checks when rows are added to a table: NOT NULL,
\* and uniqueness of the primary key among non-NULL values.
RowsAccepted(t, rows) ==
    /\ \A r \in 1..Len(rows) : \A k \in 1..Len(t.cols) :
          t.cols[k].notnull = 1 => rows[r][t.cols[k].name] # NULL
    /\ \A k \in 1..Len(t.cols) : t.cols[k].pk = 1 =>
          \A q, r \in 1..Len(rows) :
             (q # r /\ rows[q][t.cols[k].name] # NULL)
                => rows[q][t.cols[k].name] # rows[r][t.cols[k].name]

\* INSERT INTO into(cols) SELECT cols FROM from
ExecInsertSelect(st, be) ==
    IF Len(st.cols) = 0 THEN Fail(be)
    ELSE IF st.into \notin DOMAIN be.tables \/ st.from \notin DOMAIN be.tables
         THEN Fail(be)
    ELSE
      LET dst == be.tables[st.into]
          src == be.tables[st.from]
          given == {st.cols[k] : k \in 1..Len(st.cols)}
          copied == [r \in 1..Len(src.rows) |->
                       [c \in ColNames(dst) |->
                          IF c \in given THEN src.rows[r][c]
                          ELSE DefaultValue(CHOOSE col \in Range(dst.cols) : col.name = c)]]
          rows == dst.rows \o copied
      IN IF ~(given \subseteq ColNames(dst)) \/ ~(given \subseteq ColNames(src))
         THEN Fail(be)
         ELSE IF ~RowsAccepted(dst, rows) THEN Fail(be)
         ELSE Ok(Backend([be.tables EXCEPT ![st.into].rows = rows], be.indexes))

Exec(st, be) ==
    CASE st.op = "CREATE_TABLE" -> ExecCreateTable(st, be)
      [] st.op = "CREATE_INDEX" -> ExecCreateIndex(st, be)
      [] st.op = "DROP_INDEX" -> ExecDropIndex(st, be)
      [] st.op = "RENAME" -> ExecRename(st, be)
      [] st.op = "INSERT_SELECT" -> ExecInsertSelect(st, be)

\* The loop "for each query: Exec; if err != nil return err": the statements
\* run in order and the first failure ends the run.  failed is the position
\* of the statement that failed, 0 when all of them succeeded.
RECURSIVE RunFrom(_, _, _)
RunFrom(stmts, k, be) ==
    IF k > Len(stmts) THEN [failed |-> 0, be |-> be]
    ELSE LET r == Exec(stmts[k], be)
         IN IF r.ok THEN RunFrom(stmts, k + 1, r.be)
            ELSE [failed |-> k, be |-> be]

RunAllOrNothing(stmts, be) ==
    LET r == RunFrom(stmts, 1, be)
    IN IF r.failed = 0 THEN r ELSE [failed |-> r.failed, be |-> be]

RunAll(stmts, be) == RunFrom(stmts, 1, be)

\* ------------------------------------------------------------------------
\* FromSQL  (schema.go): the catalog reader
\* ------------------------------------------------------------------------
FromSQLColumn(d) ==
    [Name |-> d.name, Type |-> d.type, Required |-> (d.notnull = 1),
     Default |-> IF d.dflt.valid THEN d.dflt.lit ELSE "",
     PrimaryKey |-> (d.pk = 1)]

\* PRAGMA index_list(tablename): the indexes of the table, newest first
IndexList(be, tablename) ==
    LET OnTable(i) == i.tbl = tablename IN Reverse(SelectSeq(be.indexes, OnTable))

FromSQLIndexUntrimmed(i, tablename, columns) ==
    [Name |-> i.name,
     Columns |-> Flatten([k \in 1..Len(i.cols) |->
                    LET Named(c) == c.Name = i.cols[k] IN SelectSeq(columns, Named)])]

FromSQLIndex(i, tablename, columns) ==
    [Name |-> TrimPrefix(i.name, tablename),
     Columns |-> Flatten([k \in 1..Len(i.cols) |->
                    LET Named(c) == c.Name = i.cols[k] IN SelectSeq(columns, Named)])]

FromSQL(be, tablename) ==
    IF tablename \notin DOMAIN be.tables THEN Nil
    ELSE LET columns == [k \in 1..Len(be.tables[tablename].cols) |->
                           FromSQLColumn(be.tables[tablename].cols[k])]
             NotInternal(i) == ~HasPrefix(i.name, <<"sqlite_autoindex">>)
             listed == SelectSeq(IndexList(be, tablename), NotInternal)
         IN [Name |-> tablename, Columns |-> columns,
             Indexes |-> [k \in 1..Len(listed) |->
                            FromSQLIndex(listed[k], tablename, columns)]]

\* ------------------------------------------------------------------------
\* The schemas the store and the planner are given
\* ------------------------------------------------------------------------
DefaultSchemaName == <<"VectorCollection">>
VECTOR_COLUMN_NAME == "vector"

VectorColumn == Col("vector", "BLOB", FALSE, "", FALSE)

\* Columns in the style of getColumns() of the tests, in declaration order:
\* a required primary key, an optional column, and a column of the same
\* name as the optional one with another type and a default.
ColUniverse ==
    << Col("id", "TEXT", TRUE, "", TRUE),
       Col("user", "INT", FALSE, "", FALSE),
       Col("user", "TEXT", FALSE, "'anon'", FALSE) >>

\* Indexes in the style of getIndexes(): a logical name and the names of the
\* columns; the Column values are those of the schema the index is put in.
IdxShapes ==
    << [Name |-> <<"user">>, cols |-> <<"user">>],
       [Name |-> <<"new", "name">>, cols |-> <<"user">>],
       [Name |-> <<"user">>, cols |-> <<"user", "id">>] >>

PickSeq(universe, picked) ==
    LET idx == SelectSeq([k \in 1..Len(universe) |-> k], LAMBDA k : k \in picked)
    IN [k \in 1..Len(idx) |-> universe[idx[k]]]

ColumnSets ==
    {P \in SUBSET (1..Len(ColUniverse)) :
        /\ Cardinality(P) \in 1..MaxCols
        /\ \A j, k \in P : j # k => ColUniverse[j].Name # ColUniverse[k].Name}

IndexSets(columns) ==
    {P \in SUBSET (1..Len(IdxShapes)) :
        /\ Cardinality(P) <= MaxIdx
        /\ \A j, k \in P : j # k => IdxShapes[j].Name # IdxShapes[k].Name
        /\ \A j \in P : \A n \in Range(IdxShapes[j].cols) :
              \E c \in Range(columns) : c.Name = n}

ShapeIndex(shape, columns) ==
    Idx(shape.Name,
        [k \in 1..Len(shape.cols) |-> CHOOSE c \in Range(columns) : c.Name = shape.cols[k]])

SchemasNamed(name) ==
    UNION {LET columns == PickSeq(ColUniverse, P) IN
           {Sch(name, columns,
                LET shapes == PickSeq(IdxShapes, Q)
                IN [k \in 1..Len(shapes) |-> ShapeIndex(shapes[k], columns)])
              : Q \in IndexSets(columns)}
          : P \in ColumnSets}

SchemaInputs == SchemasNamed(DefaultSchemaName)

\* ------------------------------------------------------------------------
\* The record store  (db.go)
\* ------------------------------------------------------------------------
NewDBSchemaAlwaysAppend(s) ==
    LET named == IF s.Name = <<>> THEN [s EXCEPT !.Name = DefaultSchemaName] ELSE s
    IN [named EXCEPT !.Columns = Append(@, VectorColumn)]

NewDBSchema(s) ==
    LET named == IF s.Name = <<>> THEN [s EXCEPT !.Name = DefaultSchemaName] ELSE s
        vectorExists == \E k \in 1..Len(named.Columns) :
                           named.Columns[k].Name = "vector"
    IN IF vectorExists THEN named
       ELSE [named EXCEPT !.Columns = Append(@, VectorColumn)]

CreateTablePlan(s) ==
    <<CreateTableSQL(s)>>
    \o [k \in 1..Len(s.Indexes) |-> CreateIndexSQL(s.Indexes[k], s.Name)]

\* DB.alterTable(other): the statements of db.schema.AlterSchemaSQL(other)
AlterTablePlan(s, other) == AlterSchemaSQL(s, other)

MigratePlan(s, discoveredSchema) ==
    IF discoveredSchema = Nil THEN CreateTablePlan(s)
    ELSE AlterTablePlan(s, discoveredSchema)

Live == Backend(tables, indexes)

NoPure == /\ sa = Nil /\ sb = Nil /\ sres = Nil
NoCodec == /\ emb = <<>> /\ payload = <<>> /\ cres = Nil
NoSim ==
    /\ simIn = Nil /\ similarities = <<>> /\ indexChannel = Nil
    /\ goroutines = <<>> /\ simReturn = Nil
NoConfig == config = Nil

Init ==
    /\ tables = <<>>
    /\ indexes = <<>>
    /\ schema = Nil
    /\ op = [name |-> "init"]
    /\ nrows = 0
    /\ NoPure
    /\ NoCodec
    /\ NoSim
    /\ NoConfig

NewDB(s) ==
    /\ schema' = NewDBSchema(s)
    /\ op' = [name |-> "NewDB", arg |-> s]
    /\ UNCHANGED <<tables, indexes, nrows, pureVars, codecVars, simVars, config>>

Migrate ==
    /\ schema # Nil
    /\ LET discoveredSchema == FromSQL(Live, schema.Name)
           plan == MigratePlan(schema, discoveredSchema)
           r == RunAll(plan, Live)
       IN /\ tables' = r.be.tables
          /\ indexes' = r.be.indexes
          /\ op' = [name |-> "Migrate", failed |-> r.failed, plan |-> plan,
                    base |-> discoveredSchema, target |-> schema, before |-> Live]
    /\ UNCHANGED <<schema, nrows, pureVars, codecVars, simVars, config>>

\* The tests' "CreateTableSQL, then CreateIndexSQL for each index" on a
\* database in which FromSQL finds no such table.
CreateSchema(s) ==
    /\ FromSQL(Live, s.Name) = Nil
    /\ LET plan == CreateTablePlan(s)
           r == RunAll(plan, Live)
       IN /\ tables' = r.be.tables
          /\ indexes' = r.be.indexes
          /\ op' = [name |-> "CreateSchema", failed |-> r.failed, plan |-> plan,
                    base |-> Nil, target |-> s, before |-> Live]
    /\ UNCHANGED <<schema, nrows, pureVars, codecVars, simVars, config>>

\* The tests' "for each command of base.AlterSchemaSQL(new): Exec", on a
\* table that FromSQL reads back Equal to base.
AlterSchema(base, new) ==
    /\ FromSQL(Live, base.Name) # Nil
    /\ SchemaEqual(base, FromSQL(Live, base.Name))
    /\ LET plan == AlterSchemaSQL(base, new)
           r == RunAll(plan, Live)
       IN /\ tables' = r.be.tables
          /\ indexes' = r.be.indexes
          /\ op' = [name |-> "AlterSchema", failed |-> r.failed, plan |-> plan,
                    base |-> base, target |-> new, before |-> Live]
    /\ UNCHANGED <<schema, nrows, pureVars, codecVars, simVars, config>>

\* The tests' "INSERT INTO <table> (<every column>) VALUES (?, ...)": row r
\* holds the value <<r, c>> in column c.
InsertRow(name) ==
    /\ name \in DOMAIN tables
    /\ nrows < MaxRows
    /\ LET row == [c \in ColNames(tables[name]) |-> [r |-> nrows + 1, c |-> c]]
       IN /\ RowsAccepted(tables[name], Append(tables[name].rows, row))
          /\ tables' = [tables EXCEPT ![name].rows = Append(@, row)]
    /\ nrows' = nrows + 1
    /\ op' = [name |-> "InsertRow"]
    /\ UNCHANGED <<indexes, schema, pureVars, codecVars, simVars, config>>

\* The schemas of the inputs that a test can hold for the live table.
LiveBases ==
    LET live == FromSQL(Live, DefaultSchemaName)
    IN IF live = Nil THEN {} ELSE {b \in SchemaInputs : SchemaEqual(b, live)}

\* The store: construction (from a schema of the inputs, or once more from
\* the schema value an earlier NewDB was given), migration and rows.
Next ==
    \/ \E s \in SchemaInputs \cup SchemasNamed(<<>>) \cup ({schema} \ {Nil}) : NewDB(s)
    \/ Migrate
    \/ InsertRow(DefaultSchemaName)

Spec == Init /\ [][Next]_vars

\* The planner driven directly, as the schema tests drive it.
PlanNext ==
    \/ \E s \in SchemaInputs : CreateSchema(s)
    \/ \E base \in LiveBases : \E new \in SchemaInputs : AlterSchema(base, new)
    \/ InsertRow(DefaultSchemaName)

PlanSpec == Init /\ [][PlanNext]_vars

\* ------------------------------------------------------------------------
\* Schema.Equal and Schema.GenerateDifference on schema values as a caller
\* can build them: lists in any order, with or without repetitions.
\* ------------------------------------------------------------------------
SeqsUpTo(S, n) == UNION {[1..k -> S] : k \in 0..n}

PureColumns ==
    { Col("id", "TEXT", TRUE, "", TRUE),
      Col("user", "INT", FALSE, "", FALSE) }

PureIndexes ==
    { Idx(<<"user">>, <<Col("user", "INT", FALSE, "", FALSE)>>),
      Idx(<<"both">>, <<Col("user", "INT", FALSE, "", FALSE),
                        Col("id", "TEXT", TRUE, "", TRUE)>>),
      Idx(<<"both">>, <<Col("id", "TEXT", TRUE, "", TRUE),
                        Col("user", "INT", FALSE, "", FALSE)>>),
      Idx(<<"both">>, <<Col("id", "TEXT", TRUE, "", TRUE),
                        Col("id", "TEXT", TRUE, "", TRUE)>>) }

PureNames == {<<"SchemaA">>, <<"SchemaB">>}

PureSchemas ==
    {Sch(n, cs, is) : n \in PureNames, cs \in SeqsUpTo(PureColumns, MaxColSeq),
                      is \in SeqsUpTo(PureIndexes, MaxIdxSeq)}

NoDB ==
    /\ tables = <<>> /\ indexes = <<>> /\ schema = Nil
    /\ op = [name |-> "init"] /\ nrows = 0

PureInit ==
    /\ sa \in PureSchemas
    /\ sb \in PureSchemas
    /\ sres = [op |-> "none"]
    /\ NoDB
    /\ NoCodec
    /\ NoSim
    /\ NoConfig

\* sa.Equal(sb)
Equal ==
    /\ sres' = [op |-> "Equal", value |-> SchemaEqual(sa, sb)]
    /\ UNCHANGED <<sa, sb, dbVars, codecVars, simVars, config>>

\* sa.GenerateDifference(sb)
Difference ==
    /\ sres' = [op |-> "GenerateDifference", value |-> GenerateDifference(sa, sb)]
    /\ UNCHANGED <<sa, sb, dbVars, codecVars, simVars, config>>

\* sa.AlterSchemaSQL(sb)
Alter ==
    /\ sres' = [op |-> "AlterSchemaSQL", value |-> AlterSchemaSQL(sa, sb)]
    /\ UNCHANGED <<sa, sb, dbVars, codecVars, simVars, config>>

PureNext == Equal \/ Difference \/ Alter

PureSpec == PureInit /\ [][PureNext]_vars

\* ------------------------------------------------------------------------
\* The vector codec  (vector.go)
\* ------------------------------------------------------------------------
\* A float64 is the eight bytes of math.Float64bits, most significant first.
Floats ==
    { <<0, 0, 0, 0, 0, 0, 0, 0>>,            \* 0.0
      <<63, 240, 0, 0, 0, 0, 0, 0>>,         \* 1.0
      <<192, 4, 0, 0, 0, 0, 0, 0>>,          \* -2.5
      <<127, 248, 0, 0, 0, 0, 0, 1>> }       \* a NaN

Embeddings == SeqsUpTo(Floats, MaxEmbLen)

\* binary.LittleEndian.PutUint64: byte j of the output is bits 8j..8j+7
PutUint64BigEndian(bits) == bits

PutUint64(bits) == [j \in 1..8 |-> bits[9 - j]]

\* binary.LittleEndian.Uint64 of eight bytes
Uint64(b) == [j \in 1..8 |-> b[9 - j]]

ToBytes(v) == Flatten([k \in 1..Len(v) |-> PutUint64(v[k])])

\* The loop of FromBytes over index = 0, 8, 16, ...: bytes[index:index+8]
\* panics beyond the capacity of the slice, v.Vector[index/8] panics beyond
\* the len(bytes)/8 elements that were allocated.
RECURSIVE FromBytesLoop(_, _, _, _)
FromBytesLoop(bytes, cap, index, vector) ==
    IF ~(index < Len(bytes)) THEN [panic |-> FALSE, Vector |-> vector]
    ELSE IF index + 8 > cap THEN [panic |-> TRUE, Vector |-> vector]
    ELSE IF (index \div 8) + 1 > Len(vector) THEN [panic |-> TRUE, Vector |-> vector]
    ELSE FromBytesLoop(bytes, cap, index + 8,
            [vector EXCEPT ![(index \div 8) + 1] =
                Uint64([j \in 1..8 |->
                          IF index + j <= Len(bytes) THEN bytes[index + j] ELSE 0])])

FromBytes(bytes, cap) ==
    FromBytesLoop(bytes, cap, 0, [k \in 1..(Len(bytes) \div 8) |-> <<0, 0, 0, 0, 0, 0, 0, 0>>])

\* The blobs a row can hold: an encoded embedding, or the first bytes of one.
Payloads ==
    UNION {{SubSeq(ToBytes(e), 1, n) : n \in 0..Len(ToBytes(e))} : e \in Embeddings}

CodecInit ==
    /\ emb \in Embeddings
    /\ payload \in Payloads
    /\ cres = [op |-> "none"]
    /\ NoDB
    /\ NoPure
    /\ NoSim
    /\ NoConfig

\* payload := emb.ToBytes()
Encode ==
    /\ payload' = ToBytes(emb)
    /\ cres' = [op |-> "ToBytes", of |-> emb]
    /\ UNCHANGED <<emb, dbVars, pureVars, simVars, config>>

\* (&Vector{}).FromBytes(payload), on a slice whose capacity is cap; encoded
\* says that payload is what ToBytes has just produced from the embedding of.
\* FromBytes has no result: it cannot report an error (err is FALSE).
Decode(cap) ==
    /\ LET r == FromBytes(payload, cap)
       IN /\ emb' = r.Vector
          /\ cres' = [op |-> "FromBytes", panic |-> r.panic, err |-> FALSE,
                      encoded |-> (cres.op = "ToBytes"),
                      of |-> IF cres.op = "ToBytes" THEN cres.of ELSE <<>>]
    /\ UNCHANGED <<payload, dbVars, pureVars, simVars, config>>

CodecNext ==
    \/ Encode
    \/ \E cap \in {Len(payload), Len(payload) + 8} : Decode(cap)

CodecSpec == CodecInit /\ [][CodecNext]_vars

\* ------------------------------------------------------------------------
\* Similarity  (vector.go)
\* ------------------------------------------------------------------------
\* An embedding of this part is a sequence of integers (float64 values with
\* no fraction).  A score is an integer count of 1/ScoreUnit, which is exact
\* for every pair of embeddings of SimEmbeddings.
COSINE == 0
EUCLIDEAN == 1
DOT_PRODUCT == 2
Methods == {COSINE, EUCLIDEAN, DOT_PRODUCT}
DefaultWorkers == 50
DefaultSimilarityOptions == [Method |-> COSINE, Workers |-> DefaultWorkers]

ScoreUnit == 25

SimEmbeddings == {<<1>>, <<2>>, <<3, 4>>}

RECURSIVE SumTo(_, _)
SumTo(f, n) == IF n = 0 THEN 0 ELSE f[n] + SumTo(f, n - 1)

Dot(x, y) == SumTo([k \in 1..Len(x) |-> x[k] * y[k]], Len(x))

\* The Euclidean norm, an integer for every embedding of SimEmbeddings.
Norm(x) == CHOOSE n \in 0..Dot(x, x) : n * n = Dot(x, x)

\* govector.DotProduct: an error when the lengths differ
DotProduct(x, y) ==
    IF Len(x) # Len(y) THEN [err |-> TRUE, value |-> 0]
    ELSE [err |-> FALSE, value |-> ScoreUnit * Dot(x, y)]

\* govector.Cosine: the dot product over the product of the norms
Cosine(x, y) ==
    IF Len(x) # Len(y) THEN [err |-> TRUE, value |-> 0]
    ELSE [err |-> FALSE, value |-> (ScoreUnit * Dot(x, y)) \div (Norm(x) * Norm(y))]

cosineSimilarity(v, vector) == Cosine(v, vector)

euclideanDistance(v, vector) == [err |-> FALSE, value |-> 0]

dotProduct(v, vector) == DotProduct(v, vector)

OptionsOrDefault(options) ==
    IF options = Nil THEN DefaultSimilarityOptions ELSE options

SimilarityToVector(v, other, options) ==
    LET o == OptionsOrDefault(options) IN
    CASE o.Method = COSINE -> cosineSimilarity(v, other)
      [] o.Method = EUCLIDEAN -> euclideanDistance(v, other)
      [] o.Method = DOT_PRODUCT -> dotProduct(v, other)
      [] OTHER -> cosineSimilarity(v, other)

\* ------------------------------------------------------------------------
\* SimilarityToVectorSet: the caller, the channel and the workers
\* ------------------------------------------------------------------------
MaxVectors == 2

WorkerChoices == {0, 1, 2, MaxVectors + 1}

SimOptionInputs == {Nil} \cup [Method : Methods, Workers : WorkerChoices]

\* options after "if options == nil" and "if options.Workers == 0"
EffectiveOptions(options) ==
    LET o == OptionsOrDefault(options)
    IN IF o.Workers = 0 THEN [o EXCEPT !.Workers = DefaultWorkers] ELSE o

\* workers := options.Workers; if workers > len(vectors) { workers = len(vectors) }
WorkerCount(vectors, options) ==
    LET workers == EffectiveOptions(options).Workers
    IN IF workers > Len(vectors) THEN Len(vectors) ELSE workers

\* What a call comes to, whatever the schedule.  A worker whose computation
\* fails returns nil and leaves the loop, so that the caller's send blocks
\* for ever once as many computations have failed as there are workers and
\* an index is still to be sent; otherwise every worker returns nil, Wait
\* returns nil, and the slot of a failed computation keeps the 0 of make.
SimilarityToVectorSet(v, vectors, options) ==
    LET o == EffectiveOptions(options)
        workers == WorkerCount(vectors, options)
        Failed(k) == SimilarityToVector(v, vectors[k], o).err
        FailedUpTo(k) == Cardinality({j \in 1..k : Failed(j)})
    IN IF \E k \in 1..(Len(vectors) - 1) : FailedUpTo(k) >= workers
       THEN [hang |-> TRUE, err |-> FALSE, similarities |-> <<>>]
       ELSE [hang |-> FALSE, err |-> FALSE,
             similarities |->
                [k \in 1..Len(vectors) |->
                    IF Failed(k) THEN 0
                    ELSE SimilarityToVector(v, vectors[k], o).value]]

SimInit ==
    /\ simIn \in [v : SimEmbeddings,
                  vectors : SeqsUpTo(SimEmbeddings, MaxVectors),
                  options : SimOptionInputs]
    /\ similarities = [k \in 1..Len(simIn.vectors) |-> 0]
    /\ indexChannel = [next |-> 1, closed |-> FALSE]
    /\ goroutines = [w \in 1..WorkerCount(simIn.vectors, simIn.options) |->
                        [pc |-> "range", index |-> 0]]
    /\ simReturn = [done |-> FALSE]
    /\ NoDB
    /\ NoPure
    /\ NoCodec
    /\ NoConfig

\* "indexChannel <- index" meets "for index := range indexChannel" of worker w
Receive(w) ==
    /\ ~indexChannel.closed
    /\ indexChannel.next <= Len(simIn.vectors)
    /\ goroutines[w].pc = "range"
    /\ goroutines' = [goroutines EXCEPT ![w] = [pc |-> "compute", index |-> indexChannel.next]]
    /\ indexChannel' = [indexChannel EXCEPT !.next = @ + 1]
    /\ UNCHANGED <<simIn, similarities, simReturn, dbVars, pureVars, codecVars, config>>

\* the body of the worker's loop
Compute(w) ==
    /\ goroutines[w].pc = "compute"
    /\ LET index == goroutines[w].index
           r == SimilarityToVector(simIn.v, simIn.vectors[index],
                                   EffectiveOptions(simIn.options))
       IN IF r.err
          THEN /\ goroutines' = [goroutines EXCEPT ![w] = [pc |-> "returned", index |-> index]]
               /\ UNCHANGED similarities
          ELSE /\ similarities' = [similarities EXCEPT ![index] = r.value]
               /\ goroutines' = [goroutines EXCEPT ![w] = [pc |-> "range", index |-> index]]
    /\ UNCHANGED <<simIn, indexChannel, simReturn, dbVars, pureVars, codecVars, config>>

\* close(indexChannel), after the last send
Close ==
    /\ ~indexChannel.closed
    /\ indexChannel.next = Len(simIn.vectors) + 1
    /\ indexChannel' = [indexChannel EXCEPT !.closed = TRUE]
    /\ UNCHANGED <<simIn, similarities, goroutines, simReturn, dbVars, pureVars, codecVars, config>>

\* the worker's range loop ends on the closed channel
WorkerExit(w) ==
    /\ indexChannel.closed
    /\ goroutines[w].pc = "range"
    /\ goroutines' = [goroutines EXCEPT ![w].pc = "returned"]
    /\ UNCHANGED <<simIn, similarities, indexChannel, simReturn, dbVars, pureVars, codecVars, config>>

WaitForNothing ==
    /\ indexChannel.closed
    /\ ~simReturn.done
    /\ simReturn' = [done |-> TRUE, err |-> FALSE, similarities |-> similarities]
    /\ UNCHANGED <<simIn, similarities, indexChannel, goroutines, dbVars, pureVars, codecVars, config>>

\* group.Wait(): every worker returned nil
Wait ==
    /\ indexChannel.closed
    /\ ~simReturn.done
    /\ \A w \in DOMAIN goroutines : goroutines[w].pc = "returned"
    /\ simReturn' = [done |-> TRUE, err |-> FALSE, similarities |-> similarities]
    /\ UNCHANGED <<simIn, similarities, indexChannel, goroutines, dbVars, pureVars, codecVars, config>>

SimNext ==
    \/ \E w \in DOMAIN goroutines : Receive(w)
    \/ \E w \in DOMAIN goroutines : Compute(w)
    \/ Close
    \/ \E w \in DOMAIN goroutines : WorkerExit(w)
    \/ Wait

SimSpec == SimInit /\ [][SimNext]_vars

\* The same under a scheduler that runs some goroutine whenever one can run.
SimFairSpec == SimSpec /\ WF_vars(SimNext)

\* ------------------------------------------------------------------------
\* The record store: Insert and Query  (db.go)
\* ------------------------------------------------------------------------
\* A metadata value is the string number n, [str |-> n], or the integer n,
\* [int |-> n]; strings are ordered as their numbers.  NULL is Go's nil.
\* A vector is [Metadata |-> key -> value, Vector |-> embedding].
ValueOf(type, n) == IF type = "TEXT" THEN [str |-> n] ELSE [int |-> n]

Num(value) == IF "str" \in DOMAIN value THEN value.str ELSE value.int

\* math.Float64bits of the components in use, most significant byte first
Float64bits(x) ==
    CASE x = 0 -> <<0, 0, 0, 0, 0, 0, 0, 0>>
      [] x = 1 -> <<63, 240, 0, 0, 0, 0, 0, 0>>
      [] x = 2 -> <<64, 0, 0, 0, 0, 0, 0, 0>>
      [] x = 3 -> <<64, 8, 0, 0, 0, 0, 0, 0>>
      [] x = 4 -> <<64, 16, 0, 0, 0, 0, 0, 0>>

Float64frombits(bits) == CHOOSE x \in 0..4 : Float64bits(x) = bits

VectorToBytes(embedding) ==
    ToBytes([k \in 1..Len(embedding) |-> Float64bits(embedding[k])])

VectorFromBytes(bytes) ==
    LET r == FromBytes(bytes, Len(bytes))
    IN [panic |-> r.panic,
        Vector |-> IF r.panic THEN <<>>
                   ELSE [k \in 1..Len(r.Vector) |-> Float64frombits(r.Vector[k])]]

SchemaColumnNames(s) == {s.Columns[k].Name : k \in 1..Len(s.Columns)}

validateInsertLengthOnly(s, cfg, vector) ==
    IF Len(vector.Vector) # cfg.Length THEN "vector length does not match" ELSE ""

\* validateInsert: "" when the vector passes
validateInsert(s, cfg, vector) ==
    LET allColumns == SchemaColumnNames(s)
        requiredColumns == {s.Columns[k].Name : k \in {j \in 1..Len(s.Columns) : s.Columns[j].Required}}
    IN IF Len(vector.Vector) # cfg.Length THEN "vector length does not match"
       ELSE IF \E key \in DOMAIN vector.Metadata : key \notin allColumns
            THEN "column does not exist"
       ELSE IF \E key \in requiredColumns : key \notin DOMAIN vector.Metadata
            THEN "column is required"
       ELSE ""

\* The values of INSERT INTO name (every column) VALUES (?, ...): the bytes
\* of the embedding for the vector column, the metadata value of every other
\* column, nil when the metadata has no such key.
InsertValues(s, vector) ==
    [c \in SchemaColumnNames(s) |->
        IF c = "vector" THEN [blob |-> VectorToBytes(vector.Vector)]
        ELSE IF c \in DOMAIN vector.Metadata THEN vector.Metadata[c]
        ELSE NULL]

\* INSERT INTO name (cols) VALUES (...)
ExecInsertValues(name, row, be) ==
    IF name \notin DOMAIN be.tables THEN Fail(be)
    ELSE LET t == be.tables[name]
             rows == Append(t.rows,
                        [c \in ColNames(t) |->
                            IF c \in DOMAIN row THEN row[c]
                            ELSE DefaultValue(CHOOSE col \in Range(t.cols) : col.name = c)])
         IN IF ~(DOMAIN row \subseteq ColNames(t)) THEN Fail(be)
            ELSE IF ~RowsAccepted(t, rows) THEN Fail(be)
            ELSE Ok([be EXCEPT !.tables[name].rows = rows])

Insert(vector) ==
    /\ schema # Nil
    /\ config # Nil
    /\ nrows < MaxRows
    /\ LET err == validateInsert(schema, config, vector)
           r == ExecInsertValues(schema.Name, InsertValues(schema, vector), Live)
       IN IF err # ""
          THEN /\ op' = [name |-> "Insert", vector |-> vector, err |-> err, exec |-> FALSE]
               /\ UNCHANGED <<tables, nrows>>
          ELSE /\ op' = [name |-> "Insert", vector |-> vector,
                         err |-> IF r.ok THEN "" ELSE "backend", exec |-> TRUE]
               /\ tables' = r.be.tables
               /\ nrows' = IF r.ok THEN nrows + 1 ELSE nrows
    /\ UNCHANGED <<indexes, schema, config, pureVars, codecVars, simVars>>

\* validateQueryFilter: "" when the filter passes; nil passes
validateQueryFilter(s, filter) ==
    IF filter = Nil THEN ""
    ELSE LET bad == {k \in 1..Len(filter.Metadata) :
                        \/ filter.Metadata[k].Column \notin SchemaColumnNames(s)
                        \/ filter.Metadata[k].Column = VECTOR_COLUMN_NAME}
         IN IF bad = {} THEN ""
            ELSE LET first == CHOOSE k \in bad : \A j \in bad : k <= j
                 IN IF filter.Metadata[first].Column \notin SchemaColumnNames(s)
                    THEN "column does not exist"
                    ELSE "you can not specify vector in your query filter"

\* sqlite's "column <operation> ?": never true of a NULL column
SqlCompare(value, operation, arg) ==
    IF value = NULL THEN FALSE
    ELSE CASE operation = "==" -> Num(value) = Num(arg)
           [] operation = "!=" -> Num(value) # Num(arg)
           [] operation = ">"  -> Num(value) > Num(arg)
           [] operation = ">=" -> Num(value) >= Num(arg)
           [] operation = "<"  -> Num(value) < Num(arg)
           [] operation = "<=" -> Num(value) <= Num(arg)

\* SELECT <columns of the schema> FROM name [WHERE p1 AND p2 ...]
ExecSelect(s, filter, be) ==
    IF s.Name \notin DOMAIN be.tables THEN [ok |-> FALSE, rows |-> <<>>]
    ELSE LET t == be.tables[s.Name]
             predicates == IF filter = Nil THEN <<>> ELSE filter.Metadata
             Selected(row) ==
                \A k \in 1..Len(predicates) :
                    SqlCompare(row[predicates[k].Column], predicates[k].Operation,
                               predicates[k].Value)
         IN IF ~(SchemaColumnNames(s) \subseteq ColNames(t))
            THEN [ok |-> FALSE, rows |-> <<>>]
            ELSE [ok |-> TRUE, rows |-> SelectSeq(t.rows, Selected)]

\* The types that rowsToVectors converts, each with a type assertion that
\* panics on a nil value; a column of another type is left out of Metadata.
ConvertedTypes == {"INTEGER", "REAL", "TEXT", "BLOB", "TIMESTAMP"}

AssertionPanics(type, value) ==
    \/ value = NULL
    \/ type = "TEXT" /\ "str" \notin DOMAIN value
    \/ type = "INTEGER" /\ "int" \notin DOMAIN value

\* One row of rowsToVectors
RowToVector(s, row) ==
    LET converted == {k \in 1..Len(s.Columns) :
                         /\ s.Columns[k].Name # VECTOR_COLUMN_NAME
                         /\ s.Columns[k].Type \in ConvertedTypes}
        blobPanics == \E k \in 1..Len(s.Columns) :
                         /\ s.Columns[k].Name = VECTOR_COLUMN_NAME
                         /\ "blob" \notin DOMAIN row[VECTOR_COLUMN_NAME]
        decoded == IF VECTOR_COLUMN_NAME \in DOMAIN row /\ ~blobPanics
                   THEN VectorFromBytes(row[VECTOR_COLUMN_NAME].blob)
                   ELSE [panic |-> FALSE, Vector |-> <<>>]
    IN [panic |-> \/ blobPanics
                  \/ decoded.panic
                  \/ \E k \in converted :
                        AssertionPanics(s.Columns[k].Type, row[s.Columns[k].Name]),
        vector |-> [Metadata |-> [c \in {s.Columns[k].Name : k \in converted} |-> row[c]],
                    Vector |-> decoded.Vector]]

rowsToVectors(s, rows) ==
    LET each == [k \in 1..Len(rows) |-> RowToVector(s, rows[k])]
    IN IF \E k \in 1..Len(rows) : each[k].panic
       THEN [panic |-> TRUE, vectors |-> <<>>]
       ELSE [panic |-> FALSE, vectors |-> [k \in 1..Len(rows) |-> each[k].vector]]

\* DB.Query as a function of the store and the backend
QueryResult(s, filter, be) ==
    LET err == validateQueryFilter(s, filter)
        sel == ExecSelect(s, filter, be)
        got == rowsToVectors(s, sel.rows)
    IN IF err # "" THEN [err |-> err, panic |-> FALSE, vectors |-> <<>>]
       ELSE IF ~sel.ok THEN [err |-> "backend", panic |-> FALSE, vectors |-> <<>>]
       ELSE [err |-> "", panic |-> got.panic, vectors |-> got.vectors]

Query(filter) ==
    /\ schema # Nil
    /\ config # Nil
    /\ LET r == QueryResult(schema, filter, Live)
       IN op' = [name |-> "Query", filter |-> filter, err |-> r.err,
                 panic |-> r.panic, vectors |-> r.vectors]
    /\ UNCHANGED <<tables, indexes, schema, nrows, config, pureVars, codecVars, simVars>>

\* ------------------------------------------------------------------------
\* The store after NewDB and Migrate on an empty database, then Insert and
\* Query with inputs in the style of the store's tests.
\* ------------------------------------------------------------------------
StoreSchemaInputs ==
    {s \in SchemasNamed(<<>>) : s.Indexes = <<>> /\ Len(s.Columns) = 2}

StoreConfigs == [Length : {1, 2}]

StoreEmbeddings == {<<1>>, <<3, 4>>}

MetadataKeys == {"id", "user", "bogus"}

ColumnType(s, name) ==
    IF name \in SchemaColumnNames(s)
    THEN (CHOOSE c \in Range(s.Columns) : c.Name = name).Type
    ELSE "TEXT"

MetadataInputs(s) ==
    UNION {{[key \in K |-> ValueOf(ColumnType(s, key), n[key])] : n \in [K -> {1, 2}]}
             : K \in SUBSET MetadataKeys}

\* Metadata that names the vector column itself among its keys
ReservedKeyInputs(s) ==
    {[key \in {"id", VECTOR_COLUMN_NAME} |-> ValueOf(ColumnType(s, "id"), n)] : n \in {1, 2}}

VectorInputs(s) ==
    [Metadata : MetadataInputs(s) \cup ReservedKeyInputs(s), Vector : StoreEmbeddings]

ColumnFilter(s, column, operation, n) ==
    [Column |-> column, Operation |-> operation, Value |-> ValueOf(ColumnType(s, column), n)]

Operations == {"==", "!=", ">", ">=", "<", "<="}

FilterInputs(s) ==
    LET first == {ColumnFilter(s, "user", o, n) : o \in Operations, n \in {1, 2}}
                    \cup {ColumnFilter(s, "id", "==", 1)}
        second == {ColumnFilter(s, "user", "<=", 1), ColumnFilter(s, "id", "!=", 1)}
    IN {Nil, [Metadata |-> <<>>],
        [Metadata |-> <<ColumnFilter(s, "bogus", "==", 1)>>],
        [Metadata |-> <<ColumnFilter(s, "id", "==", 1), ColumnFilter(s, "vector", "==", 1)>>]}
       \cup {[Metadata |-> <<p>>] : p \in first}
       \cup {[Metadata |-> <<p, q>>] : p \in first, q \in second}

\* The state that NewDB(s, cfg) and Migrate leave on an empty database
Migrated(s, cfg) ==
    /\ schema = NewDBSchema(s)
    /\ config = cfg
    /\ LET r == RunAll(CreateTablePlan(schema), Backend(<<>>, <<>>))
       IN /\ tables = r.be.tables
          /\ indexes = r.be.indexes
    /\ op = [name |-> "init"]
    /\ nrows = 0

StoreInit ==
    /\ \E s \in StoreSchemaInputs : \E cfg \in StoreConfigs : Migrated(s, cfg)
    /\ NoPure
    /\ NoCodec
    /\ NoSim

StoreNext ==
    \/ \E vector \in VectorInputs(schema) : Insert(vector)
    \/ \E filter \in FilterInputs(schema) : Query(filter)

StoreSpec == StoreInit /\ [][StoreNext]_vars

\* ------------------------------------------------------------------------
\* QuerySimilarity  (db.go)
\* ------------------------------------------------------------------------
\* StdDeviations is a count of 1/StdDeviationUnit: 3 is the default 1.5.
StdDeviationUnit == 2

DefaultFilterOptions ==
    [SimilarityOptions |-> DefaultSimilarityOptions, StdDeviations |-> 3, Limit |-> 0]

\* meanAndStandardDeviation, kept exact: the number n of values, their sum,
\* and q, the sum of the squares of n * value - sum; the mean is sum / n and
\* the standard deviation is the square root of q / n^3.
meanAndStandardDeviation(values) ==
    LET n == Len(values)
        sum == SumTo(values, n)
    IN [n |-> n, sum |-> sum,
        q |-> SumTo([k \in 1..n |-> (n * values[k] - sum) * (n * values[k] - sum)], n)]

\* similarity < mean + StdDeviations * stdDev, with both sides multiplied
\* by n * StdDeviationUnit and then squared
BelowOutlier(similarity, stats, stdDeviations) ==
    LET lhs == StdDeviationUnit * (stats.n * similarity - stats.sum)
    IN \/ lhs < 0
       \/ stats.n * lhs * lhs < stdDeviations * stdDeviations * stats.q

\* cutoffIndex: the index of the first score below the outlier line, 0 when
\* there is none
CutoffIndex(sortedSimilarities, stdDeviations) ==
    LET stats == meanAndStandardDeviation(sortedSimilarities)
        below == {k \in 1..Len(sortedSimilarities) :
                     BelowOutlier(sortedSimilarities[k], stats, stdDeviations)}
    IN IF below = {} THEN 0
       ELSE (CHOOSE k \in below : \A j \in below : k <= j) - 1

SortedOrdersAscending(scores) ==
    {p \in Permutations(1..Len(scores)) :
        \A j, k \in 1..Len(scores) : j < k => scores[p[j]] <= scores[p[k]]}

\* The orders sort.Slice can leave the vectors in: descending by score, equal
\* scores in any order.
SortedOrders(scores) ==
    {p \in Permutations(1..Len(scores)) :
        \A j, k \in 1..Len(scores) : j < k => scores[p[j]] >= scores[p[k]]}

SortCutNoLimit(vectors, scores, order, options) ==
    LET n == Len(vectors)
        sortedVectors == [k \in 1..n |-> vectors[order[k]]]
        sortedSimilarities == [k \in 1..n |-> scores[order[k]]]
        kept == IF options.StdDeviations > 0
                THEN CutoffIndex(sortedSimilarities, options.StdDeviations)
                ELSE n
    IN [panic |-> FALSE, vectors |-> SubSeq(sortedVectors, 1, kept),
        scores |-> SubSeq(sortedSimilarities, 1, kept)]

\* QuerySimilarity from the sort on: order is the outcome of sort.Slice.
\* A slice expression vectors[0:Limit] beyond the capacity of
\* sortedSimilarities panics; within it, it reaches past the cutoff.
SortCutLimit(vectors, scores, order, options) ==
    LET n == Len(vectors)
        sortedVectors == [k \in 1..n |-> vectors[order[k]]]
        sortedSimilarities == [k \in 1..n |-> scores[order[k]]]
        kept == IF options.StdDeviations > 0
                THEN CutoffIndex(sortedSimilarities, options.StdDeviations)
                ELSE n
    IN IF options.Limit = 0
       THEN [panic |-> FALSE, vectors |-> SubSeq(sortedVectors, 1, kept),
             scores |-> SubSeq(sortedSimilarities, 1, kept)]
       ELSE IF options.Limit > n \/ options.Limit < 0
            THEN [panic |-> TRUE, vectors |-> <<>>, scores |-> <<>>]
       ELSE [panic |-> FALSE, vectors |-> SubSeq(sortedVectors, 1, options.Limit),
             scores |-> SubSeq(sortedSimilarities, 1, options.Limit)]

FilterOptionsOrDefault(options) ==
    IF options = Nil THEN DefaultFilterOptions ELSE options

QuerySimilarity(target, filter, options) ==
    /\ schema # Nil
    /\ config # Nil
    /\ \E o \in {FilterOptionsOrDefault(options)} :
       \E found \in {QueryResult(schema, filter, Live)} :
       \E sim \in {SimilarityToVectorSet(
                      target.Vector,
                      [k \in 1..Len(found.vectors) |-> found.vectors[k].Vector],
                      o.SimilarityOptions)} :
          LET call == [name |-> "QuerySimilarity", target |-> target, filter |-> filter,
                       options |-> options]
              none == [err |-> "", panic |-> FALSE, hang |-> FALSE, order |-> <<>>,
                       vectors |-> <<>>, scores |-> <<>>]
          IN IF found.err # "" THEN op' = call @@ [none EXCEPT !.err = found.err]
             ELSE IF found.panic THEN op' = call @@ [none EXCEPT !.panic = TRUE]
             ELSE IF sim.hang THEN op' = call @@ [none EXCEPT !.hang = TRUE]
             ELSE \E order \in SortedOrders(sim.similarities) :
                  \E r \in {SortCutLimit(found.vectors, sim.similarities, order, o)} :
                     op' = call @@ [none EXCEPT !.panic = r.panic, !.order = order,
                                                !.vectors = r.vectors, !.scores = r.scores]
    /\ UNCHANGED <<tables, indexes, schema, nrows, config, pureVars, codecVars, simVars>>

\* ------------------------------------------------------------------------
\* Similarity search over a migrated store whose only metadata column is
\* the primary key, in the style of TestSimilarity: vectors of two
\* dimensions go in, then QuerySimilarity is asked with and without a
\* filter, a cutoff and a limit.  One target has the wrong length.
\* ------------------------------------------------------------------------
SearchSchemaInputs ==
    {s \in SchemasNamed(<<>>) :
        s.Indexes = <<>> /\ Len(s.Columns) = 1 /\ s.Columns[1].Name = "id"}

SearchConfig == [Length |-> 2]

SearchEmbeddings == {<<3, 4>>, <<1, 0>>}

SearchTargets ==
    {[Metadata |-> <<>>, Vector |-> e] : e \in {<<3, 4>>, <<1, 0>>, <<1>>}}

SearchFilters(s) == {Nil, [Metadata |-> <<ColumnFilter(s, "id", "!=", 1)>>]}

FilterOptionInputs ==
    {Nil} \cup [SimilarityOptions : {Nil, [Method |-> DOT_PRODUCT, Workers |-> 1]},
                StdDeviations : {0, 2},
                Limit : {0, 1, 2}]

SearchInit ==
    /\ \E s \in SearchSchemaInputs : Migrated(s, SearchConfig)
    /\ NoPure
    /\ NoCodec
    /\ NoSim

SearchNext ==
    \/ \E e \in SearchEmbeddings :
          Insert([Metadata |-> [id |-> ValueOf("TEXT", nrows + 1)], Vector |-> e])
    \/ \E target \in SearchTargets, filter \in SearchFilters(schema),
          options \in FilterOptionInputs : QuerySimilarity(target, filter, options)

SearchSpec == SearchInit /\ [][SearchNext]_vars

\* ========================================================================
\* Properties
\* ========================================================================
TableName == DefaultSchemaName
TmpName == TableName \o <<"tmp">>

IsMigrate == op.name = "Migrate"
IsAlter == op.name = "AlterSchema"
IsCreate == op.name = "CreateSchema"

\* Equality of indexes as the data model defines it: same name, same set of
\* columns.
IndexSame(i, j) == i.Name = j.Name /\ Range(i.Columns) = Range(j.Columns)

ColumnsChanged(a, b) == Range(a.Columns) # Range(b.Columns)

StmtsOf(plan, kind) == {k \in 1..Len(plan) : plan[k].op = kind}

\* C1: whenever Migrate returns without error, the live table named by the
\* store's schema exists and its schema is Equal to the store's schema.
C1_MigrateReachesDesired ==
    (IsMigrate /\ op.failed = 0) =>
        /\ FromSQL(Live, schema.Name) # Nil
        /\ SchemaEqual(schema, FromSQL(Live, schema.Name))

C3_TmpTableDropped ==
    (IsAlter /\ op.failed = 0 /\ ColumnsChanged(op.base, op.target)) =>
        TmpName \notin DOMAIN tables

C5_AlterReachesTarget ==
    IsAlter =>
        /\ op.failed = 0
        /\ FromSQL(Live, op.target.Name) # Nil
        /\ SchemaEqual(op.target, FromSQL(Live, op.target.Name))

\* C6: FromSQL finds nothing for a table that does not exist; after
\* CreateTableSQL and CreateIndexSQL for each index it returns the schema that
\* was created: the same columns with their type, required, default and
\* primary-key flags and the same indexes under their logical names.
C6_CreateRoundTrip ==
    /\ (TableName \notin DOMAIN tables) => FromSQL(Live, TableName) = Nil
    /\ IsCreate =>
         /\ op.failed = 0
         /\ LET found == FromSQL(Live, op.target.Name)
            IN /\ found # Nil
               /\ found.Name = op.target.Name
               /\ found.Columns = op.target.Columns
               /\ Len(found.Indexes) = Len(op.target.Indexes)
               /\ \A i \in Range(op.target.Indexes) :
                     \E j \in Range(found.Indexes) : IndexSame(i, j)
               /\ SchemaEqual(op.target, found)

C6_Witness ==
    /\ IsCreate
    /\ \E c \in Range(op.target.Columns) : c.PrimaryKey
    /\ \E c \in Range(op.target.Columns) : c.Default # ""
    /\ Len(op.target.Indexes) = MaxIdx

\* Number of positions of the list at which an element satisfies Same(_, x).
ColumnCount(columns, x) == Cardinality({k \in 1..Len(columns) : columns[k] = x})
IndexCount(idxs, x) == Cardinality({k \in 1..Len(idxs) : IndexSame(idxs[k], x)})

SameMultisets(a, b) ==
    /\ a.Name = b.Name
    /\ \A x \in Range(a.Columns) \cup Range(b.Columns) :
          ColumnCount(a.Columns, x) = ColumnCount(b.Columns, x)
    /\ \A x \in Range(a.Indexes) \cup Range(b.Indexes) :
          IndexCount(a.Indexes, x) = IndexCount(b.Indexes, x)

\* C7: Equal(a, b) is true exactly when a and b have the same name, the same
\* multiset of columns and the same multiset of indexes (same name, same
\* column set); in particular Equal(a, b) = Equal(b, a).
C7_EqualIsMultisetEquality ==
    sres.op = "Equal" =>
        /\ sres.value = SameMultisets(sa, sb)
        /\ sres.value = SchemaEqual(sb, sa)

\* C8: GenerateDifference(current, desired) is the set difference by
\* structural equality: addColumns / addIndexes are the elements of desired
\* that current does not hold, removeColumns / removeIndexes the elements of
\* current that desired does not hold, whatever the names of the schemas.
C8_DifferenceIsSetDifference ==
    sres.op = "GenerateDifference" =>
        LET ColsMissing(xs, ys) ==
                LET Missing(c) == c \notin Range(ys) IN SelectSeq(xs, Missing)
            IdxsMissing(xs, ys) ==
                LET Missing(i) == ~\E j \in Range(ys) : IndexSame(i, j)
                IN SelectSeq(xs, Missing)
        IN /\ sres.value.addColumns = ColsMissing(sb.Columns, sa.Columns)
           /\ sres.value.removeColumns = ColsMissing(sa.Columns, sb.Columns)
           /\ sres.value.addIndexes = IdxsMissing(sb.Indexes, sa.Indexes)
           /\ sres.value.removeIndexes = IdxsMissing(sa.Indexes, sb.Indexes)

\* C9: FromBytes(ToBytes(e)) is e, component by component (bit for bit), for
\* every length including 0, and ToBytes(e) is exactly 8 bytes per component:
\* the little-endian bytes of each component in index order, nothing else.
C9_CodecRoundTrip ==
    /\ cres.op = "ToBytes" =>
         /\ Len(payload) = 8 * Len(emb)
         /\ \A k \in 1..Len(emb) : \A j \in 1..8 :
               payload[8 * (k - 1) + j] = emb[k][9 - j]
    /\ (cres.op = "FromBytes" /\ cres.encoded) =>
         /\ ~cres.panic
         /\ Len(payload) = 8 * Len(cres.of)
         /\ emb = cres.of

C9_Witness ==
    /\ cres.op = "FromBytes" /\ cres.encoded
    /\ Len(cres.of) = MaxEmbLen
    /\ \E k \in 1..Len(cres.of) : cres.of[k] # Reverse(cres.of[k])

\* C10: decoding a payload whose length is 0 or not a multiple of 8 returns
\* an error to the caller; it does not abort the program.
C10_BadPayloadIsAnError ==
    (cres.op = "FromBytes" /\ (Len(payload) = 0 \/ Len(payload) % 8 # 0)) =>
        /\ cres.err
        /\ ~cres.panic

\* The caller is blocked for ever in "indexChannel <- index": an index is
\* still to be sent and every worker has returned.
Hung ==
    /\ indexChannel # Nil
    /\ ~indexChannel.closed
    /\ indexChannel.next <= Len(simIn.vectors)
    /\ \A w \in DOMAIN goroutines : goroutines[w].pc = "returned"

\* The concurrent run ends as SimilarityToVectorSet(v, vectors, options) says.
SimOutcome ==
    simIn # Nil =>
        LET r == SimilarityToVectorSet(simIn.v, simIn.vectors, simIn.options)
        IN /\ Hung => r.hang
           /\ simReturn.done =>
                /\ ~r.hang
                /\ simReturn.err = r.err
                /\ simReturn.similarities = r.similarities

\* C11: for every worker count and every interleaving the call returns the
\* list of the sequential loop: entry i is the similarity of v to vectors[i].
C11_SameAsSequentialLoop ==
    simIn # Nil =>
        /\ ~Hung
        /\ simReturn.done =>
             /\ Len(simReturn.similarities) = Len(simIn.vectors)
             /\ \A k \in 1..Len(simIn.vectors) :
                   LET r == SimilarityToVector(simIn.v, simIn.vectors[k], simIn.options)
                   IN ~r.err /\ simReturn.similarities[k] = r.value

\* C12: when the computation fails for a vector of the set the call returns
\* an error and no list.
C12_FailureIsReturned ==
    (/\ simIn # Nil
     /\ simReturn.done
     /\ \E k \in 1..Len(simIn.vectors) :
           SimilarityToVector(simIn.v, simIn.vectors[k], simIn.options).err)
    => /\ simReturn.err
       /\ simReturn.similarities = <<>>

\* The square of the Euclidean distance of two embeddings of one length.
DistanceSquared(x, y) ==
    SumTo([k \in 1..Len(x) |-> (x[k] - y[k]) * (x[k] - y[k])], Len(x))

\* C18: with method EUCLIDEAN the score is the negative distance: 0 for the
\* vector itself, below 0 for any other vector of that length, and higher for
\* the closer of two vectors.
C18_EuclideanIsNegativeDistance ==
    (/\ simIn # Nil
     /\ simReturn.done
     /\ EffectiveOptions(simIn.options).Method = EUCLIDEAN)
    => LET SameLength == {k \in 1..Len(simIn.vectors) :
                             Len(simIn.vectors[k]) = Len(simIn.v)}
           score == simReturn.similarities
       IN \A k \in SameLength :
             /\ (simIn.vectors[k] = simIn.v) => score[k] = 0
             /\ (simIn.vectors[k] # simIn.v) => score[k] < 0
             /\ \A j \in SameLength :
                   DistanceSquared(simIn.v, simIn.vectors[k])
                      < DistanceSquared(simIn.v, simIn.vectors[j])
                   => score[k] > score[j]

\* C19: after NewDB the store's schema has a name, the default one when the
\* caller gave none, and exactly one column named "vector": the optional BLOB
\* column without default appended to a schema that omits it, nothing added to
\* a schema that declares it, such as the schema of an earlier NewDB.
C19_OneVectorColumn ==
    op.name = "NewDB" =>
        LET declared == \E k \in 1..Len(op.arg.Columns) :
                            op.arg.Columns[k].Name = VECTOR_COLUMN_NAME
        IN /\ schema.Name # <<>>
           /\ schema.Name = IF op.arg.Name = <<>> THEN DefaultSchemaName ELSE op.arg.Name
           /\ Cardinality({k \in 1..Len(schema.Columns) :
                              schema.Columns[k].Name = VECTOR_COLUMN_NAME}) = 1
           /\ schema.Columns = IF declared THEN op.arg.Columns
                               ELSE Append(op.arg.Columns,
                                           Col(VECTOR_COLUMN_NAME, "BLOB", FALSE, "", FALSE))
           /\ schema.Indexes = op.arg.Indexes

C19_Witness ==
    /\ op.name = "NewDB"
    /\ op.arg = schema
    /\ Len(schema.Columns) = MaxCols + 1
    /\ TableName \in DOMAIN tables

\* C13: Insert returns a validation error and sends no INSERT when the
\* embedding has not the configured length, when the metadata has a key that
\* is no column, or when a required column has no key in the metadata; in
\* every other case validation passes and the INSERT is sent.
C13_InsertValidation ==
    op.name = "Insert" =>
        LET wrongLength == Len(op.vector.Vector) # config.Length
            unknownKey == \E key \in DOMAIN op.vector.Metadata :
                              \A k \in 1..Len(schema.Columns) : schema.Columns[k].Name # key
            missingRequired == \E k \in 1..Len(schema.Columns) :
                                  /\ schema.Columns[k].Required
                                  /\ schema.Columns[k].Name \notin DOMAIN op.vector.Metadata
        IN IF wrongLength \/ unknownKey \/ missingRequired
           THEN /\ op.err \notin {"", "backend"}
                /\ ~op.exec
           ELSE /\ op.exec
                /\ op.err \in {"", "backend"}

C13_Witness ==
    /\ op.name = "Insert"
    /\ op.err = "column is required"
    /\ Len(op.vector.Vector) = config.Length
    /\ nrows = MaxRows - 1
    /\ Len(tables[schema.Name].rows) = nrows

\* A stored record as the caller gave it: the metadata values that were
\* given, and the embedding.
StoredRecord(row) ==
    [Metadata |-> [c \in {d \in DOMAIN row : d # VECTOR_COLUMN_NAME /\ row[d] # NULL} |-> row[c]],
     Vector |-> VectorFromBytes(row[VECTOR_COLUMN_NAME].blob).Vector]

\* The usual meaning of a predicate on a record
Satisfies(record, p) ==
    /\ p.Column \in DOMAIN record.Metadata
    /\ LET a == Num(record.Metadata[p.Column])
           b == Num(p.Value)
       IN CASE p.Operation = "==" -> a = b
            [] p.Operation = "!=" -> a # b
            [] p.Operation = ">"  -> a > b
            [] p.Operation = ">=" -> a >= b
            [] p.Operation = "<"  -> a < b
            [] p.Operation = "<=" -> a <= b

\* C14: Query(filter), for a filter on declared metadata columns, returns
\* exactly the stored records that satisfy every predicate, and every stored
\* record when the filter is absent or empty.
C14_QueryReturnsMatches ==
    (op.name = "Query" /\ validateQueryFilter(schema, op.filter) = "") =>
        LET predicates == IF op.filter = Nil THEN <<>> ELSE op.filter.Metadata
            stored == [k \in 1..Len(tables[schema.Name].rows) |->
                          StoredRecord(tables[schema.Name].rows[k])]
            expected == {k \in 1..Len(stored) :
                            \A j \in 1..Len(predicates) : Satisfies(stored[k], predicates[j])}
        IN /\ ~op.panic
           /\ op.err = ""
           /\ Len(op.vectors) = Cardinality(expected)
           /\ Range(op.vectors) = {stored[k] : k \in expected}


\* ------------------------------------------------------------------------
\* QuerySimilarity
\* ------------------------------------------------------------------------
\* The last operation was a QuerySimilarity that returned its two slices.
Returned ==
    /\ op.name = "QuerySimilarity"
    /\ op.err = ""
    /\ ~op.panic
    /\ ~op.hang

\* The options, candidates and scores of the last QuerySimilarity, computed
\* again from its arguments and the database, which it leaves as it was.
GivenOptions == FilterOptionsOrDefault(op.options)

Candidates == QueryResult(schema, op.filter, Live).vectors

CandidateScores ==
    SimilarityToVectorSet(op.target.Vector,
                          [k \in 1..Len(Candidates) |-> Candidates[k].Vector],
                          GivenOptions.SimilarityOptions).similarities

NonIncreasing(scores) ==
    \A k \in 1..(Len(scores) - 1) : scores[k] >= scores[k + 1]

\* C15: QuerySimilarity with StdDeviations = 0 and Limit = 0 returns every
\* candidate of Query(filter) exactly once, the scores alongside, ordered by
\* descending score.
C15_NoTruncation ==
    (Returned /\ GivenOptions.StdDeviations = 0 /\ GivenOptions.Limit = 0) =>
        /\ Len(op.vectors) = Len(Candidates)
        /\ Len(op.scores) = Len(Candidates)
        /\ \E p \in Permutations(1..Len(Candidates)) :
              \A k \in 1..Len(Candidates) :
                  /\ op.vectors[k] = Candidates[p[k]]
                  /\ op.scores[k] = CandidateScores[p[k]]
        /\ NonIncreasing(op.scores)

\* Two candidates came back, the sort having swapped them.
C15_Witness ==
    /\ Returned
    /\ GivenOptions.StdDeviations = 0
    /\ GivenOptions.Limit = 0
    /\ Len(op.vectors) = 2
    /\ op.scores[1] > op.scores[2]
    /\ op.vectors[1] = Candidates[2]

\* What the same call returns with Limit = 0, the sort having ended in the
\* same order.
Unlimited ==
    SortCutLimit(Candidates, CandidateScores, op.order, [GivenOptions EXCEPT !.Limit = 0])

\* C16: with Limit = K > 0 and K at most the number of entries left after
\* the outlier cutoff, QuerySimilarity returns exactly K entries, the first K
\* of the unlimited result in the same order.
C16_LimitIsTopK ==
    (Returned /\ GivenOptions.Limit > 0
              /\ GivenOptions.Limit <= Len(Unlimited.vectors)) =>
        /\ Len(op.vectors) = GivenOptions.Limit
        /\ op.vectors = SubSeq(Unlimited.vectors, 1, GivenOptions.Limit)
        /\ op.scores = SubSeq(Unlimited.scores, 1, GivenOptions.Limit)

\* Limit 1 cut a result of two entries down to its first.
C16_Witness ==
    /\ Returned
    /\ GivenOptions.Limit = 1
    /\ Len(Unlimited.vectors) = 2
    /\ Unlimited.scores[1] > Unlimited.scores[2]
    /\ op.vectors = <<Unlimited.vectors[1]>>

\* The longest prefix of the sorted scores that are all at or above
\* mean + k * stddev
LongestPrefix(sortedSimilarities, stdDeviations) ==
    LET stats == meanAndStandardDeviation(sortedSimilarities)
        AllAbove(m) == \A k \in 1..m :
                          ~BelowOutlier(sortedSimilarities[k], stats, stdDeviations)
    IN CHOOSE m \in 0..Len(sortedSimilarities) :
          /\ AllAbove(m)
          /\ \A j \in 0..Len(sortedSimilarities) : AllAbove(j) => j <= m

\* C17: with StdDeviations = k > 0 (no limit, a target of the store's
\* length) QuerySimilarity keeps the
\* longest prefix of the descending list whose scores are all at or above
\* mean + k * stddev: the whole list when every score is.
C17_KeepsLongestPrefix ==
    (Returned /\ Len(op.target.Vector) = config.Length
              /\ GivenOptions.StdDeviations > 0 /\ GivenOptions.Limit = 0) =>
        LET sorted == [k \in 1..Len(op.order) |-> CandidateScores[op.order[k]]]
        IN op.scores = SubSeq(sorted, 1, LongestPrefix(sorted, GivenOptions.StdDeviations))

\* C20: whenever QuerySimilarity returns, the two lists have the same
\* length, scores[i] is the similarity of the target to vectors[i], and the
\* scores are non-increasing.
C20_ScoresBelongToVectors ==
    Returned =>
        /\ Len(op.vectors) = Len(op.scores)
        /\ \A k \in 1..Len(op.vectors) :
              LET r == SimilarityToVector(op.target.Vector, op.vectors[k].Vector,
                                          GivenOptions.SimilarityOptions)
              IN ~r.err /\ r.value = op.scores[k]
        /\ NonIncreasing(op.scores)


\* ------------------------------------------------------------------------
\* The statements of the rebuild
\* ------------------------------------------------------------------------
\* C21: AlterSchemaSQL(current, desired) rebuilds exactly when a column is
\* added or removed or the names differ, and the rebuild is, in this order:
\* DROP INDEX for every index of current, the rename of current's table to
\* the temporary name, CREATE TABLE for desired, CREATE INDEX for every index
\* of desired, and one INSERT ... SELECT of the columns present in both from
\* the temporary table into the table of desired's name.
C21_RebuildStatements ==
    sres.op = "AlterSchemaSQL" =>
        LET added == \E k \in 1..Len(sb.Columns) : sb.Columns[k] \notin Range(sa.Columns)
            removed == \E k \in 1..Len(sa.Columns) : sa.Columns[k] \notin Range(sb.Columns)
            InBoth(c) == c \in Range(sb.Columns)
            both == SelectSeq(sa.Columns, InBoth)
            rebuild ==
                [k \in 1..Len(sa.Indexes) |-> DropIndexSQL(sa.Name, sa.Indexes[k])]
                \o <<[op |-> "RENAME", from |-> sa.Name, to |-> TmpTableName(sa)]>>
                \o <<CreateTableSQL(sb)>>
                \o [k \in 1..Len(sb.Indexes) |-> CreateIndexSQL(sb.Indexes[k], sb.Name)]
                \o <<[op |-> "INSERT_SELECT", into |-> sb.Name,
                      cols |-> [k \in 1..Len(both) |-> both[k].Name],
                      from |-> TmpTableName(sa)]>>
        IN IF added \/ removed \/ sa.Name # sb.Name
           THEN sres.value = rebuild
           ELSE \A k \in 1..Len(sres.value) :
                   sres.value[k].op \in {"DROP_INDEX", "CREATE_INDEX"}


\* ------------------------------------------------------------------------
\* Migrate when a statement fails
\* ------------------------------------------------------------------------
\* The backend after every statement of stmts was sent to it
RECURSIVE AfterStatements(_, _)
AfterStatements(stmts, be) ==
    IF stmts = <<>> THEN be
    ELSE AfterStatements(Tail(stmts), Exec(Head(stmts), be).be)

\* C22: when the k-th statement of its plan fails, Migrate returns that
\* error with the backend as statements 1..k-1 left it: none of them is
\* undone and no statement after k is executed.
C22_StopsAtFailure ==
    (op.name = "Migrate" /\ op.failed > 0) =>
        LET Before(k) == AfterStatements(SubSeq(op.plan, 1, k - 1), op.before)
        IN /\ op.failed <= Len(op.plan)
           /\ \A j \in 1..(op.failed - 1) : Exec(op.plan[j], Before(j)).ok
           /\ ~Exec(op.plan[op.failed], Before(op.failed)).ok
           /\ Live = Before(op.failed)

\* A Migrate failed after statements that changed the backend.
C22_Witness ==
    /\ op.name = "Migrate"
    /\ op.failed >= 2
    /\ Live # op.before
    /\ \E k \in (op.failed + 1)..Len(op.plan) :
          Exec(op.plan[k], Live).ok /\ Exec(op.plan[k], Live).be # Live


\* ------------------------------------------------------------------------
\* Insert and Query together
\* ------------------------------------------------------------------------
\* C23: Insert rejects a vector (of the right length) whose metadata has
\* the reserved name "vector" among its keys, with the error of a column
\* that does not exist.
C23_ReservedKeyRejected ==
    (/\ op.name = "Insert"
     /\ Len(op.vector.Vector) = config.Length
     /\ VECTOR_COLUMN_NAME \in DOMAIN op.vector.Metadata) =>
        /\ op.err = "column does not exist"
        /\ ~op.exec


\* C24: after a successful Insert(v), Query(nil) succeeds and returns as
\* many vectors as Inserts succeeded, the last of them with v's embedding
\* and v's value for every column v supplied.
C24_InsertThenQuery ==
    (op.name = "Insert" /\ op.err = "") =>
        LET found == QueryResult(schema, Nil, Live)
        IN /\ found.err = ""
           /\ ~found.panic
           /\ Len(found.vectors) = nrows
           /\ found.vectors[nrows].Vector = op.vector.Vector
           /\ \A key \in DOMAIN op.vector.Metadata \ {VECTOR_COLUMN_NAME} :
                 /\ key \in DOMAIN found.vectors[nrows].Metadata
                 /\ found.vectors[nrows].Metadata[key] = op.vector.Metadata[key]

\* C25: a metadata column whose declared type is none of INTEGER, REAL,
\* TEXT, BLOB, TIMESTAMP is passed through by Query: every returned vector
\* has the column's key, with the value the backend holds.
C25_OtherTypesPassThrough ==
    (op.name = "Query" /\ op.err = "" /\ ~op.panic) =>
        LET rows == ExecSelect(schema, op.filter, Live).rows
        IN \A k \in 1..Len(op.vectors) : \A j \in 1..Len(schema.Columns) :
              (/\ schema.Columns[j].Name # VECTOR_COLUMN_NAME
               /\ schema.Columns[j].Type \notin {"INTEGER", "REAL", "TEXT", "BLOB", "TIMESTAMP"}) =>
                  /\ schema.Columns[j].Name \in DOMAIN op.vectors[k].Metadata
                  /\ op.vectors[k].Metadata[schema.Columns[j].Name] = rows[k][schema.Columns[j].Name]


\* ------------------------------------------------------------------------
\* QuerySimilarity: ties, and the limit
\* ------------------------------------------------------------------------
\* C26: the sort of QuerySimilarity is stable: candidates with equal scores
\* come back in the relative order in which Query returned them.
C26_TiesKeepQueryOrder ==
    (Returned /\ Len(op.target.Vector) = config.Length
              /\ GivenOptions.StdDeviations = 0 /\ GivenOptions.Limit = 0) =>
        \A j, k \in 1..Len(op.order) :
            (j < k /\ op.scores[j] = op.scores[k]) => op.order[j] < op.order[k]

\* C29: a Limit never enlarges the result: with Limit = K > 0 the call
\* returns, without failing, the first min(K, n) of the n entries left after
\* the outlier cutoff.
C29_LimitNeverEnlarges ==
    (/\ op.name = "QuerySimilarity"
     /\ op.err = ""
     /\ ~op.hang
     /\ Len(op.target.Vector) = config.Length
     /\ GivenOptions.Limit > 0) =>
        LET n == Len(Unlimited.vectors)
            m == IF GivenOptions.Limit < n THEN GivenOptions.Limit ELSE n
        IN /\ ~op.panic
           /\ op.vectors = SubSeq(Unlimited.vectors, 1, m)
           /\ op.scores = SubSeq(Unlimited.scores, 1, m)


\* ------------------------------------------------------------------------
\* SimilarityToVectorSet: the queue and the slots
\* ------------------------------------------------------------------------
\* No index was handed to two workers, and the call has returned only
\* after every index was sent and every worker had returned.
HandedOutOnce ==
    /\ \A w \in DOMAIN goroutines : goroutines[w].index < indexChannel.next
    /\ \A w, x \in DOMAIN goroutines :
          (w # x /\ goroutines[w].index # 0) => goroutines[w].index # goroutines[x].index
    /\ simReturn.done =>
          /\ indexChannel.next = Len(simIn.vectors) + 1
          /\ \A w \in DOMAIN goroutines : goroutines[w].pc = "returned"
          /\ simReturn.similarities = similarities

\* One step: an index goes from the queue to exactly one worker, a slot is
\* written only by the worker that holds its index, one slot at a time.
QueueAndSlotStep ==
    /\ indexChannel'.next \in {indexChannel.next, indexChannel.next + 1}
    /\ indexChannel'.next = indexChannel.next + 1 =>
          \E w \in DOMAIN goroutines :
              /\ goroutines[w].pc = "range"
              /\ goroutines'[w] = [pc |-> "compute", index |-> indexChannel.next]
              /\ \A x \in DOMAIN goroutines \ {w} : goroutines'[x] = goroutines[x]
    /\ \A k \in 1..Len(similarities) :
          similarities'[k] # similarities[k] =>
              /\ \E w \in DOMAIN goroutines :
                    /\ goroutines[w] = [pc |-> "compute", index |-> k]
                    /\ goroutines'[w].pc = "range"
              /\ \A j \in 1..Len(similarities) \ {k} : similarities'[j] = similarities[j]
              /\ ~simReturn.done

\* C27: every index is put on the queue once and received by one worker, a
\* slot is written only by the worker that received its index, so never by
\* two, and every write precedes the return of the result.
C27_DisjointSlots == [][QueueAndSlotStep /\ HandedOutOnce']_vars

\* Two workers computed at once, each for its own index, and wrote two slots.
C27_Witness ==
    /\ simIn # Nil
    /\ simReturn.done
    /\ Cardinality({w \in DOMAIN goroutines : goroutines[w].index # 0}) >= 2
    /\ Cardinality({k \in 1..Len(similarities) : similarities[k] # 0}) >= 2

\* C28: SimilarityToVectorSet always returns, for every list of vectors and
\* every worker count, also after a computation has failed in a worker.
C28_AlwaysReturns == <>(simReturn.done)


\* ------------------------------------------------------------------------
\* Migrate, again
\* ------------------------------------------------------------------------
\* C30: a Migrate that follows a successful Migrate of the same store, the
\* desired schema unchanged, executes no statement, returns no error and
\* leaves the tables and their rows as they were.
C30_MigrateAgainDoesNothing ==
    [][(/\ op.name = "Migrate"
        /\ op.failed = 0
        /\ op'.name = "Migrate"
        /\ schema' = schema) =>
            /\ op'.plan = <<>>
            /\ op'.failed = 0
            /\ tables' = tables
            /\ indexes' = indexes]_vars

====
